---- MODULE Spec2Model ----
(***************************************************************************)
(* Comment-investment ledger and settlement of the discussion hub          *)
(* (sensai-ai/src/api/db/hub.py): invest_in_comment and settle_investment  *)
(* run as coroutines; every awaited database call is one step, so calls    *)
(* interleave between their database calls.                                *)
(***************************************************************************)
EXTENDS Integers, Sequences, FiniteSets, TLC

VARIABLES
    posts,          \* posts table: id -> row
    post_votes,     \* post_votes table: set of rows, UNIQUE(post_id, user_id)
    user_points,    \* user_points table: user_id -> balance (rows that exist)
    ledger,         \* user_points_ledger table, in insertion (id) order
    investments,    \* comment_investments table, in insertion (id) order
    now,            \* wall clock (CURRENT_TIMESTAMP / datetime.utcnow())
    mod_task,       \* background moderation task of each comment
    call,           \* per coroutine: position and local variables
    ret,            \* what the call that returned last returned or raised
    ncalls,         \* number of calls started so far
    nenv            \* number of votes, views, moderations and clock ticks so far

vars == <<posts, post_votes, user_points, ledger, investments, now, mod_task, call, ret, ncalls, nenv>>

----------------------------------------------------------------------------
(* Bounds of the model *)

MaxCalls == 3       \* calls of invest / settle started in one behaviour
MaxTime == 1        \* ticks of the wall clock
MaxEnvOps == 1      \* votes, view increments, moderations and ticks in one behaviour

(* Program constants *)

NULL == -1                      \* SQL NULL in an integer column
INVEST_MIN_POINTS == 10
INVEST_PAYOUT_MULTIPLIER == 2
INVEST_WINDOW_DAYS == 1

Users == {1, 2}                 \* user ids
Procs == {1, 2}                 \* concurrently running request coroutines
Amounts == {INVEST_MIN_POINTS - 5, INVEST_MIN_POINTS, 2 * INVEST_MIN_POINTS}   \* amounts passed to invest
\* post ids a caller passes to invest: the root post, reply 2, and 9, which is no row
\* (reply 3 is the sibling that is ranked against it)
PostArgs == {1, 2, 9}
ModerationActions == {"approve", "flag", "remove", "fail"}

----------------------------------------------------------------------------
(* Helpers *)

RECURSIVE SetToSeq(_)
\* the elements of a finite set of integers in ascending order
SetToSeq(S) ==
    IF S = {} THEN <<>>
    ELSE LET m == CHOOSE x \in S : \A y \in S : x <= y
         IN <<m>> \o SetToSeq(S \ {m})

----------------------------------------------------------------------------
(* The store: api.utils.db and api.db.user *)

\* COALESCE(SUM(CASE vote_type WHEN 'up' THEN 1 WHEN 'down' THEN -1 ELSE 0 END), 0)
Score(votes, post_id) ==
    Cardinality({v \in votes : v.post_id = post_id /\ v.vote_type = "up"})
  - Cardinality({v \in votes : v.post_id = post_id /\ v.vote_type = "down"})

\* get_user_points_balance: the balance row's amount, 0 when the user has no row
get_user_points_balance(points, user_id) ==
    IF user_id \in DOMAIN points THEN points[user_id] ELSE 0

\* one SQL statement of a command list, applied to db = [investments, user_points, ledger]
ApplyCommand(db, cmd, clock) ==
    CASE cmd.op = "insert_investment" ->
            [db EXCEPT !.investments = Append(@,
                [id |-> Len(@) + 1,
                 investor_user_id |-> cmd.investor_user_id,
                 comment_id |-> cmd.comment_id,
                 post_id |-> cmd.post_id,
                 amount |-> cmd.amount,
                 status |-> cmd.status,
                 settle_at |-> cmd.settle_at,
                 settled_at |-> NULL,
                 payout_amount |-> NULL])]
      [] cmd.op = "insert_or_ignore_points" ->
            IF cmd.user_id \in DOMAIN db.user_points THEN db
            ELSE [db EXCEPT !.user_points =
                    [u \in DOMAIN @ \cup {cmd.user_id} |->
                        IF u = cmd.user_id THEN 0 ELSE @[u]]]
      [] cmd.op = "update_balance" ->
            IF cmd.user_id \in DOMAIN db.user_points
            THEN [db EXCEPT !.user_points[cmd.user_id] = @ + cmd.delta]
            ELSE db
      [] cmd.op = "insert_ledger" ->
            [db EXCEPT !.ledger = Append(@,
                [id |-> Len(@) + 1,
                 user_id |-> cmd.user_id,
                 delta |-> cmd.delta,
                 reason |-> cmd.reason,
                 ref_comment_id |-> cmd.ref_comment_id,
                 investment_id |-> cmd.investment_id])]
      [] cmd.op = "update_investment" ->
            [db EXCEPT !.investments =
                [i \in DOMAIN @ |->
                    IF @[i].id = cmd.id
                    THEN [@[i] EXCEPT !.status = cmd.status,
                                      !.payout_amount = cmd.payout_amount,
                                      !.settled_at = clock]
                    ELSE @[i]]]

RECURSIVE execute_multiple_db_operations(_, _, _)
\* the commands of one list, in order, in one transaction
execute_multiple_db_operations(db, commands, clock) ==
    IF commands = <<>> THEN db
    ELSE execute_multiple_db_operations(
            ApplyCommand(db, Head(commands), clock), Tail(commands), clock)

Db == [investments |-> investments, user_points |-> user_points, ledger |-> ledger]

----------------------------------------------------------------------------
(* invest_in_comment: its pure parts *)

\* moderation_status in ('flagged','removed'), line 117
IneligibleStatuses == {"flagged", "removed"}

\* Faulty variant: the author is checked before the parent.
InvestValidationAuthorFirst(table, investor_user_id, comment_id, amount) ==
    IF amount < INVEST_MIN_POINTS THEN "Amount below minimum"
    ELSE IF comment_id \notin DOMAIN table THEN "Comment not found"
    ELSE IF table[comment_id].user_id = investor_user_id THEN "Cannot invest in own comment"
    ELSE IF table[comment_id].parent_id = NULL THEN "Not a comment"
    ELSE IF table[comment_id].moderation_status \in IneligibleStatuses THEN "Comment not eligible"
    ELSE ""

\* Faulty variant: the author of the comment is not checked.
InvestValidationNoAuthorCheck(table, investor_user_id, comment_id, amount) ==
    IF amount < INVEST_MIN_POINTS THEN "Amount below minimum"
    ELSE IF comment_id \notin DOMAIN table THEN "Comment not found"
    ELSE IF table[comment_id].parent_id = NULL THEN "Not a comment"
    ELSE IF table[comment_id].moderation_status \in IneligibleStatuses THEN "Comment not eligible"
    ELSE ""

\* Faulty variant: the minimum stake is not checked.
InvestValidationNoMinimum(table, investor_user_id, comment_id, amount) ==
    IF comment_id \notin DOMAIN table THEN "Comment not found"
    ELSE IF table[comment_id].parent_id = NULL THEN "Not a comment"
    ELSE IF table[comment_id].user_id = investor_user_id THEN "Cannot invest in own comment"
    ELSE IF table[comment_id].moderation_status \in IneligibleStatuses THEN "Comment not eligible"
    ELSE ""

\* the validation of the fetched comment row: the error raised, "" when none
InvestValidation(table, investor_user_id, comment_id, amount) ==
    IF amount < INVEST_MIN_POINTS THEN "Amount below minimum"
    ELSE IF comment_id \notin DOMAIN table THEN "Comment not found"
    ELSE IF table[comment_id].parent_id = NULL THEN "Not a comment"
    ELSE IF table[comment_id].user_id = investor_user_id THEN "Cannot invest in own comment"
    ELSE IF table[comment_id].moderation_status \in IneligibleStatuses THEN "Comment not eligible"
    ELSE ""

\* Faulty variant: the comparison is the wrong way round.
InsufficientBalanceReversed(balance, amount) == balance > amount

\* raise ValueError("Insufficient balance") when balance < amount
InsufficientBalance(balance, amount) == balance < amount

\* Faulty variant: the window is not added to the clock.
SettleAtNoWindow(clock) == clock

\* settle_at = utcnow() + timedelta(days=INVEST_WINDOW_DAYS)
SettleAt(clock) == clock + INVEST_WINDOW_DAYS

\* Faulty variant: the stake is not written to the ledger.
InvestCommandsNoLedger(investor_user_id, comment_id, parent_id, amount, settle_at) ==
    << [op |-> "insert_investment", investor_user_id |-> investor_user_id,
        comment_id |-> comment_id, post_id |-> parent_id, amount |-> amount,
        status |-> "pending", settle_at |-> settle_at],
       [op |-> "insert_or_ignore_points", user_id |-> investor_user_id],
       [op |-> "update_balance", user_id |-> investor_user_id, delta |-> -amount] >>

\* Faulty variant: the stake is written to the ledger with the wrong sign.
InvestCommandsLedgerSign(investor_user_id, comment_id, parent_id, amount, settle_at) ==
    << [op |-> "insert_investment", investor_user_id |-> investor_user_id,
        comment_id |-> comment_id, post_id |-> parent_id, amount |-> amount,
        status |-> "pending", settle_at |-> settle_at],
       [op |-> "insert_or_ignore_points", user_id |-> investor_user_id],
       [op |-> "update_balance", user_id |-> investor_user_id, delta |-> -amount],
       [op |-> "insert_ledger", user_id |-> investor_user_id, delta |-> amount,
        reason |-> "invest_stake", ref_comment_id |-> comment_id,
        investment_id |-> NULL] >>

\* Faulty variant: the balance is not decremented.
InvestCommandsNoDebit(investor_user_id, comment_id, parent_id, amount, settle_at) ==
    << [op |-> "insert_investment", investor_user_id |-> investor_user_id,
        comment_id |-> comment_id, post_id |-> parent_id, amount |-> amount,
        status |-> "pending", settle_at |-> settle_at],
       [op |-> "insert_or_ignore_points", user_id |-> investor_user_id],
       [op |-> "insert_ledger", user_id |-> investor_user_id, delta |-> -amount,
        reason |-> "invest_stake", ref_comment_id |-> comment_id,
        investment_id |-> NULL] >>

\* the command list of a stake
InvestCommands(investor_user_id, comment_id, parent_id, amount, settle_at) ==
    << [op |-> "insert_investment", investor_user_id |-> investor_user_id,
        comment_id |-> comment_id, post_id |-> parent_id, amount |-> amount,
        status |-> "pending", settle_at |-> settle_at],
       [op |-> "insert_or_ignore_points", user_id |-> investor_user_id],
       [op |-> "update_balance", user_id |-> investor_user_id, delta |-> -amount],
       [op |-> "insert_ledger", user_id |-> investor_user_id, delta |-> -amount,
        reason |-> "invest_stake", ref_comment_id |-> comment_id,
        investment_id |-> NULL] >>

----------------------------------------------------------------------------
(* settle_investment: its pure parts *)

\* Faulty variant: a removed comment is not treated as moderated away.
ModeratedAwayFlaggedOnly == {"flagged"}

\* the statuses settlement treats as moderated away, lines 177 and 188
ModeratedAway == {"flagged", "removed"}

\* Faulty variant: every comment that is not approved counts as moderated away.
IsModeratedAwayUnlessApproved(table, comment_id) ==
    comment_id \in DOMAIN table /\ table[comment_id].moderation_status # "approved"

\* moderated_away = comment_row and comment_row[0] in ('flagged','removed')
IsModeratedAway(table, comment_id) ==
    comment_id \in DOMAIN table /\ table[comment_id].moderation_status \in ModeratedAway

\* Faulty variant: the sibling query does not filter on the moderation status.
SiblingRowsUnfiltered(table, votes, post_id) ==
    LET ids == {c \in DOMAIN table : table[c].parent_id = post_id}
        s == SetToSeq(ids)
    IN [k \in 1..Len(s) |->
            [id |-> s[k], score |-> Score(votes, s[k]),
             views |-> table[s[k]].views, created_at |-> table[s[k]].created_at]]

\* the sibling query: the eligible comments under post_id, one row each (GROUP BY p.id)
SiblingRows(table, votes, post_id) ==
    LET ids == {c \in DOMAIN table :
                    /\ table[c].parent_id = post_id
                    /\ table[c].moderation_status \notin ModeratedAway}
        s == SetToSeq(ids)
    IN [k \in 1..Len(s) |->
            [id |-> s[k], score |-> Score(votes, s[k]),
             views |-> table[s[k]].views, created_at |-> table[s[k]].created_at]]

\* Faulty variant: equal scores are broken by the lowest view count.
ScoreKeyViewsAscending(r) == <<-r.score, r.views, r.created_at>>

\* lambda r: (-int(r[1]), -int(r[2]), r[3])
ScoreKey(r) == <<-r.score, -r.views, r.created_at>>
\* Faulty variant: on the views axis the latest comment is preferred in a tie.
ViewsKeyLatestFirst(r) == <<-r.views, -r.score, -r.created_at>>

\* lambda r: (-int(r[2]), -int(r[1]), r[3])
ViewsKey(r) == <<-r.views, -r.score, r.created_at>>

\* Python's order on tuples of three
TupleLess(a, b) ==
    \/ a[1] < b[1]
    \/ a[1] = b[1] /\ a[2] < b[2]
    \/ a[1] = b[1] /\ a[2] = b[2] /\ a[3] < b[3]

\* the key function of one of the two sorts
SortKey(axis, r) == IF axis = "score" THEN ScoreKey(r) ELSE ViewsKey(r)

RECURSIVE InsertSorted(_, _, _)
\* r goes after every element whose key is not greater (the sort is stable)
InsertSorted(sorted, r, axis) ==
    IF sorted = <<>> THEN <<r>>
    ELSE IF TupleLess(SortKey(axis, r), SortKey(axis, Head(sorted)))
         THEN <<r>> \o sorted
         ELSE <<Head(sorted)>> \o InsertSorted(Tail(sorted), r, axis)

RECURSIVE SortedBy(_, _)
\* sorted(rows, key=...)
SortedBy(rows, axis) ==
    IF rows = <<>> THEN <<>>
    ELSE InsertSorted(SortedBy(SubSeq(rows, 1, Len(rows) - 1), axis), rows[Len(rows)], axis)

\* sorted(rows, key=...)[0][0], the two tops; NULL when rows is empty
TopScoreId(rows) == IF rows = <<>> THEN NULL ELSE SortedBy(rows, "score")[1].id
TopViewsId(rows) == IF rows = <<>> THEN NULL ELSE SortedBy(rows, "views")[1].id

\* Faulty variant: a single row is not ranked.
IsTopScoreAmongSeveral(rows, comment_id) == Len(rows) > 1 /\ TopScoreId(rows) = comment_id

IsTopScore(rows, comment_id) == rows # <<>> /\ TopScoreId(rows) = comment_id
IsTopViews(rows, comment_id) == rows # <<>> /\ TopViewsId(rows) = comment_id

\* Faulty variant: every comment that is not moderated away wins.
WonUnlessModerated(moderated_away, rows, comment_id) == ~moderated_away

\* Faulty variant: the top by views is not required.
WonTopScoreOnly(moderated_away, rows, comment_id) ==
    (~moderated_away) /\ IsTopScore(rows, comment_id)

\* won = (not moderated_away) and is_top_score and is_top_views
Won(moderated_away, rows, comment_id) ==
    (~moderated_away) /\ IsTopScore(rows, comment_id) /\ IsTopViews(rows, comment_id)

\* Faulty variant: the payout does not depend on the outcome.
PayoutUnconditional(won, amount) == amount * INVEST_PAYOUT_MULTIPLIER

\* Faulty variant: the stake is returned without the multiplier.
PayoutNoMultiplier(won, amount) == IF won THEN amount ELSE 0

\* payout = amount * INVEST_PAYOUT_MULTIPLIER if won else 0
Payout(won, amount) == IF won THEN amount * INVEST_PAYOUT_MULTIPLIER ELSE 0

\* Faulty variant: a stake that did not win is written as cancelled.
NewStatusCancelled(won) == IF won THEN "won" ELSE "cancelled"

NewStatus(won) == IF won THEN "won" ELSE "lost"

\* Faulty variant: the payout is written to the ledger but not added to the balance.
SettleCommandsNoCredit(investment_id, investor_user_id, comment_id, won, payout) ==
    << [op |-> "update_investment", id |-> investment_id,
        status |-> (IF won THEN "won" ELSE "lost"), payout_amount |-> payout] >>
    \o (IF won /\ payout > 0
        THEN << [op |-> "insert_or_ignore_points", user_id |-> investor_user_id],
                [op |-> "insert_ledger", user_id |-> investor_user_id, delta |-> payout,
                 reason |-> "invest_payout", ref_comment_id |-> comment_id,
                 investment_id |-> investment_id] >>
        ELSE <<>>)

\* Faulty variant: the payout is written but the investment row is not updated.
SettleCommandsNoStatusUpdate(investment_id, investor_user_id, comment_id, won, payout) ==
    IF won /\ payout > 0
    THEN << [op |-> "insert_or_ignore_points", user_id |-> investor_user_id],
            [op |-> "update_balance", user_id |-> investor_user_id, delta |-> payout],
            [op |-> "insert_ledger", user_id |-> investor_user_id, delta |-> payout,
             reason |-> "invest_payout", ref_comment_id |-> comment_id,
             investment_id |-> investment_id] >>
    ELSE <<>>

\* the command list of a settlement
SettleCommands(investment_id, investor_user_id, comment_id, won, payout) ==
    << [op |-> "update_investment", id |-> investment_id,
        status |-> NewStatus(won), payout_amount |-> payout] >>
    \o (IF won /\ payout > 0
        THEN << [op |-> "insert_or_ignore_points", user_id |-> investor_user_id],
                [op |-> "update_balance", user_id |-> investor_user_id, delta |-> payout],
                [op |-> "insert_ledger", user_id |-> investor_user_id, delta |-> payout,
                 reason |-> "invest_payout", ref_comment_id |-> comment_id,
                 investment_id |-> investment_id] >>
        ELSE <<>>)

----------------------------------------------------------------------------
(* Coroutine state *)

NoRet == [kind |-> "none", error |-> "", investment_id |-> NULL, status |-> "",
          payout |-> NULL, won |-> FALSE, post_id |-> NULL]

ErrorRet(message) == [NoRet EXCEPT !.kind = "error", !.error = message]

Idle ==
    [pc |-> "idle", investor_user_id |-> NULL, comment_id |-> NULL, post_id |-> NULL,
     amount |-> NULL, investment_id |-> NULL, moderated_away |-> FALSE,
     won |-> FALSE, payout |-> NULL]

----------------------------------------------------------------------------
(* invest_in_comment, one action per awaited database call *)

\* lines 103-118: the argument check, the comment fetch and its validation
InvestFetch(p, investor_user_id, comment_id, amount) ==
    /\ call[p].pc = "idle"
    /\ ncalls < MaxCalls
    /\ ncalls' = ncalls + 1
    /\ LET error == InvestValidation(posts, investor_user_id, comment_id, amount)
       IN IF error # ""
          THEN /\ ret' = ErrorRet(error)
               /\ UNCHANGED call
          ELSE /\ call' = [call EXCEPT ![p] =
                    [Idle EXCEPT !.pc = "inv_balance",
                                 !.investor_user_id = investor_user_id,
                                 !.comment_id = comment_id,
                                 !.post_id = posts[comment_id].parent_id,
                                 !.amount = amount]]
               /\ UNCHANGED ret
    /\ UNCHANGED <<posts, post_votes, user_points, ledger, investments, now, mod_task, nenv>>

\* lines 120-123: the balance check
InvestBalance(p) ==
    /\ call[p].pc = "inv_balance"
    /\ LET balance == get_user_points_balance(user_points, call[p].investor_user_id)
       IN IF InsufficientBalance(balance, call[p].amount)
          THEN /\ ret' = ErrorRet("Insufficient balance")
               /\ call' = [call EXCEPT ![p] = Idle]
          ELSE /\ call' = [call EXCEPT ![p].pc = "inv_write"]
               /\ UNCHANGED ret
    /\ UNCHANGED <<posts, post_votes, user_points, ledger, investments, now, mod_task, ncalls, nenv>>

\* lines 126-156: the four writes in one transaction, and the summary returned
InvestWrite(p) ==
    /\ call[p].pc = "inv_write"
    /\ LET c == call[p]
           db == execute_multiple_db_operations(Db,
                    InvestCommands(c.investor_user_id, c.comment_id, c.post_id,
                                   c.amount, SettleAt(now)), now)
       IN /\ investments' = db.investments
          /\ user_points' = db.user_points
          /\ ledger' = db.ledger
          /\ call' = [call EXCEPT ![p] = Idle]
          /\ ret' = [NoRet EXCEPT !.kind = "investment", !.status = "pending"]
    /\ UNCHANGED <<posts, post_votes, now, mod_task, ncalls, nenv>>

\* line 146 raises: the transaction is rolled back, the exception reaches the caller
InvestWriteFails(p) ==
    /\ call[p].pc = "inv_write"
    /\ call' = [call EXCEPT ![p] = Idle]
    /\ ret' = ErrorRet("Database error")
    /\ UNCHANGED <<posts, post_votes, user_points, ledger, investments, now, mod_task,
                   ncalls, nenv>>

----------------------------------------------------------------------------
(* settle_investment, one action per awaited database call *)

\* Faulty variant: only an investment whose settle_at has passed is found.
InvestmentRowsDueOnly(investment_id) ==
    {investments[i] : i \in {j \in DOMAIN investments :
        investments[j].id = investment_id /\ investments[j].settle_at <= now}}

\* Faulty variant: the row is looked up under the id before the one asked for.
InvestmentRowsOffByOne(investment_id) ==
    {investments[i] : i \in {j \in DOMAIN investments : investments[j].id = investment_id - 1}}

\* the row of comment_investments with this id, as a set (empty when there is none)
InvestmentRows(investment_id) ==
    {investments[i] : i \in {j \in DOMAIN investments : investments[j].id = investment_id}}

\* lines 162-170: the investment fetch, not found, and the early return
SettleFetch(p, investment_id) ==
    /\ call[p].pc = "idle"
    /\ ncalls < MaxCalls
    /\ ncalls' = ncalls + 1
    /\ IF InvestmentRows(investment_id) = {}
       THEN /\ ret' = ErrorRet("Investment not found")
            /\ UNCHANGED call
       ELSE LET inv == CHOOSE r \in InvestmentRows(investment_id) : TRUE
            IN IF inv.status # "pending"
               THEN /\ ret' = [NoRet EXCEPT !.kind = "status",
                                            !.investment_id = investment_id,
                                            !.status = inv.status]
                    /\ UNCHANGED call
               ELSE /\ call' = [call EXCEPT ![p] =
                        [Idle EXCEPT !.pc = "set_comment",
                                     !.investment_id = investment_id,
                                     !.investor_user_id = inv.investor_user_id,
                                     !.comment_id = inv.comment_id,
                                     !.post_id = inv.post_id,
                                     !.amount = inv.amount]]
                    /\ UNCHANGED ret
    /\ UNCHANGED <<posts, post_votes, user_points, ledger, investments, now, mod_task, nenv>>

\* lines 173-177: the moderation status of the staked comment
SettleComment(p) ==
    /\ call[p].pc = "set_comment"
    /\ call' = [call EXCEPT ![p] =
            [@ EXCEPT !.pc = "set_rows",
                      !.moderated_away = IsModeratedAway(posts, call[p].comment_id)]]
    /\ UNCHANGED <<posts, post_votes, user_points, ledger, investments, now, mod_task, ncalls, nenv, ret>>

\* lines 180-206: the sibling query, the two tops, won and payout
SettleRows(p) ==
    /\ call[p].pc = "set_rows"
    /\ LET c == call[p]
           rows == SiblingRows(posts, post_votes, c.post_id)
           won == Won(c.moderated_away, rows, c.comment_id)
       IN call' = [call EXCEPT ![p] =
            [@ EXCEPT !.pc = "set_write", !.won = won, !.payout = Payout(won, c.amount)]]
    /\ UNCHANGED <<posts, post_votes, user_points, ledger, investments, now, mod_task, ncalls, nenv, ret>>

\* lines 208-245: the status update and the payout writes in one transaction
SettleWrite(p) ==
    /\ call[p].pc = "set_write"
    /\ LET c == call[p]
           db == execute_multiple_db_operations(Db,
                    SettleCommands(c.investment_id, c.investor_user_id, c.comment_id,
                                   c.won, c.payout), now)
       IN /\ investments' = db.investments
          /\ user_points' = db.user_points
          /\ ledger' = db.ledger
          /\ call' = [call EXCEPT ![p] = Idle]
          /\ ret' = [NoRet EXCEPT !.kind = "settlement",
                                  !.investment_id = c.investment_id,
                                  !.status = NewStatus(c.won),
                                  !.payout = c.payout, !.won = c.won]
    /\ UNCHANGED <<posts, post_votes, now, mod_task, ncalls, nenv>>

----------------------------------------------------------------------------
(* The rest of the backend, as far as it changes what invest and settle read *)

\* update_post_moderation_status
update_post_moderation_status(table, post_id, status) ==
    [table EXCEPT ![post_id].moderation_status = status]

\* the status moderate_comment_content stores for a moderation outcome
\* Faulty variant: a failed moderation call leaves the status as it was created.
ModerationStatusNoFallback(action) ==
    CASE action = "approve" -> "approved"
      [] action = "flag" -> "flagged"
      [] action = "remove" -> "removed"
      [] OTHER -> "pending"

ModerationStatus(action) ==
    CASE action = "approve" -> "approved"
      [] action = "flag" -> "flagged"
      [] action = "remove" -> "removed"
      [] OTHER -> "approved"     \* the call raised

\* moderate_comment_content: the comment's background task runs once
ModerateComment(comment_id, action) ==
    /\ mod_task[comment_id] = "queued"
    /\ nenv < MaxEnvOps /\ nenv' = nenv + 1
    /\ mod_task' = [mod_task EXCEPT ![comment_id] = "done"]
    /\ posts' = update_post_moderation_status(posts, comment_id, ModerationStatus(action))
    /\ UNCHANGED <<post_votes, user_points, ledger, investments, now, call, ncalls, ret>>

\* add_vote_to_post: vote_type NULL deletes the user's vote, otherwise upsert
add_vote_to_post(votes, post_id, user_id, vote_type) ==
    LET others == {v \in votes : ~(v.post_id = post_id /\ v.user_id = user_id)}
    IN IF vote_type = "NULL" THEN others
       ELSE others \cup {[post_id |-> post_id, user_id |-> user_id, vote_type |-> vote_type]}

Vote(post_id, user_id, vote_type) ==
    /\ post_votes' = add_vote_to_post(post_votes, post_id, user_id, vote_type)
    /\ post_votes' # post_votes
    /\ nenv < MaxEnvOps /\ nenv' = nenv + 1
    /\ UNCHANGED <<posts, user_points, ledger, investments, now, mod_task, call, ncalls, ret>>

\* increment_post_views
IncrementViews(post_id) ==
    /\ nenv < MaxEnvOps /\ nenv' = nenv + 1
    /\ posts' = [posts EXCEPT ![post_id].views = @ + 1]
    /\ UNCHANGED <<post_votes, user_points, ledger, investments, now, mod_task, call, ncalls, ret>>

\* the wall clock advances
Tick ==
    /\ now < MaxTime
    /\ nenv < MaxEnvOps /\ nenv' = nenv + 1
    /\ now' = now + 1
    /\ UNCHANGED <<posts, post_votes, user_points, ledger, investments, mod_task, call, ncalls, ret>>

----------------------------------------------------------------------------
(* Initial state: a thread with two comments, one user holding points *)

\* the points user 1 holds at the start; user 2 has no balance row
InitBalance(u) == IF u = 1 THEN 2 * INVEST_MIN_POINTS ELSE 0

\* the comments of a posts table
Comments == {c \in DOMAIN posts : posts[c].parent_id # NULL}

\* post 1 is a thread of user 1; posts 2 and 3 are replies of user 2 under it,
\* just created: moderation pending, no views, no votes
InitPosts ==
    [id \in {1, 2, 3} |->
        [parent_id |-> IF id = 1 THEN NULL ELSE 1,
         user_id |-> IF id = 1 THEN 1 ELSE 2,
         moderation_status |-> IF id = 1 THEN "approved" ELSE "pending",
         views |-> 0,
         created_at |-> 0]]

Init ==
    /\ posts = InitPosts
    /\ post_votes = {}
    /\ user_points = [u \in {1} |-> InitBalance(u)]
    /\ ledger = << [id |-> 1, user_id |-> 1, delta |-> InitBalance(1),
                    reason |-> "comment_streak", ref_comment_id |-> NULL,
                    investment_id |-> NULL] >>
    /\ investments = <<>>
    /\ now = 0
    /\ mod_task = [c \in {2, 3} |-> "queued"]
    /\ call = [p \in Procs |-> Idle]
    /\ ret = NoRet
    /\ ncalls = 0
    /\ nenv = 0

Invest(p) ==
    \E u \in Users, c \in PostArgs, a \in Amounts : InvestFetch(p, u, c, a)

Settle(p) ==
    \E i \in 1..(Len(investments) + 1) : SettleFetch(p, i)

Next ==
    \/ \E p \in Procs : Invest(p)
    \/ \E p \in Procs : InvestBalance(p)
    \/ \E p \in Procs : InvestWrite(p)
    \/ \E p \in Procs : InvestWriteFails(p)
    \/ \E p \in Procs : Settle(p)
    \/ \E p \in Procs : SettleComment(p)
    \/ \E p \in Procs : SettleRows(p)
    \/ \E p \in Procs : SettleWrite(p)
    \/ \E c \in Comments, a \in ModerationActions : ModerateComment(c, a)
    \/ \E c \in Comments, u \in Users, v \in {"up", "down", "NULL"} : Vote(c, u, v)
    \/ \E c \in Comments : IncrementViews(c)
    \/ Tick

Spec == Init /\ [][Next]_vars

----------------------------------------------------------------------------
(* Settlement alone, over a range of threads: post 1 with the replies 2, 3 and 4 *)
(* in any moderation state, with votes and views from small sets; user 1 holds  *)
(* two pending stakes, on replies 2 and 3.  Calls do not overlap.               *)

Voters == 1..5
RankScores == {-1, 5}
RankViews == {0, 10, 20}
ModerationStatuses == {"pending", "approved", "flagged", "removed"}

\* a post_votes table in which post_id has the given score
VotesWithScore(post_id, score) ==
    IF score >= 0
    THEN {[post_id |-> post_id, user_id |-> u, vote_type |-> "up"] : u \in 1..score}
    ELSE {[post_id |-> post_id, user_id |-> u, vote_type |-> "down"] : u \in 1..(-score)}

RankLedger ==
    << [id |-> 1, user_id |-> 1, delta |-> 2 * INVEST_MIN_POINTS, reason |-> "comment_streak",
        ref_comment_id |-> NULL, investment_id |-> NULL],
       [id |-> 2, user_id |-> 1, delta |-> -INVEST_MIN_POINTS, reason |-> "invest_stake",
        ref_comment_id |-> 2, investment_id |-> NULL],
       [id |-> 3, user_id |-> 1, delta |-> -INVEST_MIN_POINTS, reason |-> "invest_stake",
        ref_comment_id |-> 3, investment_id |-> NULL] >>

RankInvestments ==
    [i \in 1..2 |->
        [id |-> i, investor_user_id |-> 1, comment_id |-> i + 1, post_id |-> 1,
         amount |-> INVEST_MIN_POINTS, status |-> "pending", settle_at |-> INVEST_WINDOW_DAYS,
         settled_at |-> NULL, payout_amount |-> NULL]]

InitRank ==
    /\ \E st \in [{2, 3, 4} -> ModerationStatuses],
          sc \in [{2, 3, 4} -> RankScores],
          vw \in [{2, 3} -> RankViews] :
        /\ st[4] \in {"approved", "removed"}
        /\ posts = [id \in {1, 2, 3, 4} |->
                [parent_id |-> IF id = 1 THEN NULL ELSE 1,
                 user_id |-> IF id = 1 THEN 1 ELSE 2,
                 moderation_status |-> IF id = 1 THEN "approved" ELSE st[id],
                 views |-> IF id = 1 THEN 0 ELSE IF id = 4 THEN 10 ELSE vw[id],
                 created_at |-> IF id = 4 THEN 1 ELSE 0]]
        /\ post_votes = UNION {VotesWithScore(c, sc[c]) : c \in {2, 3, 4}}
        /\ mod_task = [c \in {2, 3, 4} |-> IF st[c] = "pending" THEN "queued" ELSE "done"]
    /\ user_points = [u \in {1} |-> 0]
    /\ ledger = RankLedger
    /\ investments = RankInvestments
    /\ now = 0
    /\ call = [p \in Procs |-> Idle]
    /\ ret = NoRet
    /\ ncalls = 0
    /\ nenv = 0

AllIdle == \A p \in Procs : call[p].pc = "idle"

NextRank ==
    \/ Settle(1)
    \/ SettleComment(1)
    \/ SettleRows(1)
    \/ SettleWrite(1)
    \/ AllIdle /\ \E c \in Comments, a \in ModerationActions : ModerateComment(c, a)

SpecRank == InitRank /\ [][NextRank]_vars

----------------------------------------------------------------------------
(* create_post and the moderation tasks it queues *)

\* the points one streak award grants: the size of the grant in the initial ledger
StreakPoints == InitBalance(1)

AwardOutcomes == {"awarded", "already", "raises"}

\* the parents a post is created under: none (a root post) or post 1
ParentArgs == {NULL, 1}

\* Faulty variant: the award is attempted for every post.
AwardAppliesAlways(parent_id) == TRUE

\* if parent_id is not None
AwardApplies(parent_id) == parent_id # NULL

\* the row INSERT INTO posts ... 'pending' adds
NewPost(user_id, parent_id, clock) ==
    [parent_id |-> parent_id, user_id |-> user_id, moderation_status |-> "pending",
     views |-> 0, created_at |-> clock]

\* award_daily_comment_streak_points: grants the points, finds them granted already
\* today, or raises before it has written
award_daily_comment_streak_points(db, user_id, outcome) ==
    IF outcome = "awarded"
    THEN execute_multiple_db_operations(db,
            << [op |-> "insert_or_ignore_points", user_id |-> user_id],
               [op |-> "update_balance", user_id |-> user_id, delta |-> StreakPoints],
               [op |-> "insert_ledger", user_id |-> user_id, delta |-> StreakPoints,
                reason |-> "comment_streak", ref_comment_id |-> NULL,
                investment_id |-> NULL] >>, 0)
    ELSE db

PostRet(post_id) == [NoRet EXCEPT !.kind = "post", !.post_id = post_id]

\* the background task the route adds once create_post has returned
QueueModeration(post_id) ==
    [c \in DOMAIN mod_task \cup {post_id} |->
        IF c = post_id THEN "queued" ELSE mod_task[c]]

\* create_post lines 77-84 and, for a root post, the return of line 91
CreateInsert(p, user_id, parent_id) ==
    /\ call[p].pc = "idle"
    /\ ncalls < MaxCalls
    /\ ncalls' = ncalls + 1
    /\ LET post_id == Cardinality(DOMAIN posts) + 1
       IN /\ posts' = [id \in 1..post_id |->
                        IF id = post_id THEN NewPost(user_id, parent_id, now) ELSE posts[id]]
          /\ IF AwardApplies(parent_id)
             THEN /\ call' = [call EXCEPT ![p] =
                        [Idle EXCEPT !.pc = "cp_award", !.investor_user_id = user_id,
                                     !.comment_id = post_id, !.post_id = parent_id]]
                  /\ UNCHANGED <<ret, mod_task>>
             ELSE /\ ret' = PostRet(post_id)
                  /\ mod_task' = QueueModeration(post_id)
                  /\ UNCHANGED call
    /\ UNCHANGED <<post_votes, user_points, ledger, investments, now, nenv>>

\* create_post lines 86-91: the award inside try/except, then the return
CreateAward(p, outcome) ==
    /\ call[p].pc = "cp_award"
    /\ LET db == award_daily_comment_streak_points(Db, call[p].investor_user_id, outcome)
       IN /\ user_points' = db.user_points
          /\ ledger' = db.ledger
    /\ ret' = PostRet(call[p].comment_id)
    /\ mod_task' = QueueModeration(call[p].comment_id)
    /\ call' = [call EXCEPT ![p] = Idle]
    /\ UNCHANGED <<posts, post_votes, investments, now, ncalls, nenv>>

\* moderate_post_content: the background task of a root post runs once
ModeratePost(post_id, action) ==
    /\ posts[post_id].parent_id = NULL
    /\ mod_task[post_id] = "queued"
    /\ nenv < MaxEnvOps /\ nenv' = nenv + 1
    /\ mod_task' = [mod_task EXCEPT ![post_id] = "done"]
    /\ posts' = update_post_moderation_status(posts, post_id, ModerationStatus(action))
    /\ UNCHANGED <<post_votes, user_points, ledger, investments, now, call, ncalls, ret>>

NextCreate ==
    \/ \E p \in Procs, u \in Users, parent \in ParentArgs : CreateInsert(p, u, parent)
    \/ \E p \in Procs, o \in AwardOutcomes : CreateAward(p, o)
    \/ \E c \in DOMAIN mod_task \cap Comments, a \in ModerationActions : ModerateComment(c, a)
    \/ \E c \in DOMAIN mod_task \ Comments, a \in ModerationActions : ModeratePost(c, a)

SpecCreate == Init /\ [][NextCreate]_vars

----------------------------------------------------------------------------
(* Properties *)

RECURSIVE LedgerSum(_, _)
\* the sum of the deltas of a user's ledger entries
LedgerSum(entries, user_id) ==
    IF entries = <<>> THEN 0
    ELSE (IF Head(entries).user_id = user_id THEN Head(entries).delta ELSE 0)
         + LedgerSum(Tail(entries), user_id)

RECURSIVE StakedSum(_, _)
\* the sum of the amounts of a user's investments
StakedSum(rows, user_id) ==
    IF rows = <<>> THEN 0
    ELSE (IF Head(rows).investor_user_id = user_id THEN Head(rows).amount ELSE 0)
         + StakedSum(Tail(rows), user_id)

LedgerEntries(reason) == {k \in DOMAIN ledger : ledger[k].reason = reason}

PayoutEntries(investment_id) ==
    {k \in LedgerEntries("invest_payout") : ledger[k].investment_id = investment_id}

\* C1: in every state reached by invest and settle calls, overlapping or not, each
\* user's balance (0 without a balance row) is the sum of the user's ledger deltas.
C1_BalanceIsLedgerSum ==
    \A u \in Users : get_user_points_balance(user_points, u) = LedgerSum(ledger, u)

\* a stake and a payout have both been written
C1_Witness ==
    /\ LedgerEntries("invest_stake") # {}
    /\ LedgerEntries("invest_payout") # {}
    /\ C1_BalanceIsLedgerSum

\* C2: as long as nothing has been settled, a user's balance plus the amounts of the
\* user's investments is the balance the user started with: a successful invest moves
\* exactly amount from the balance into an investment, a failed one moves nothing.
C2_StakesConserveBalance ==
    (\A i \in DOMAIN investments : investments[i].status = "pending")
    => \A u \in Users :
        get_user_points_balance(user_points, u) + StakedSum(investments, u)
            = InitBalance(u)

\* two stakes of user 1 are in place and an invest call has just failed
C2_Witness ==
    /\ Len(investments) = 2
    /\ \A i \in DOMAIN investments :
            investments[i].status = "pending" /\ investments[i].investor_user_id = 1
    /\ ret.kind = "error"
    /\ user_points[1] = 0

\* C3: a user cannot overspend by overlapping invest calls: the balance is never
\* negative, and before any payout the stakes created never exceed the balance the
\* user started with.
C3_NoOverspend ==
    \A u \in Users :
        /\ get_user_points_balance(user_points, u) >= 0
        /\ (LedgerEntries("invest_payout") = {} => StakedSum(investments, u) <= InitBalance(u))

\* C4: an investment is created pending, and once it is won or lost no step changes
\* its status, payout_amount or settled_at again.
C4_SettledIsFinal ==
    [][\A i \in DOMAIN investments' :
        IF i \in DOMAIN investments
        THEN investments[i].status # "pending" => investments'[i] = investments[i]
        ELSE investments'[i].status = "pending"]_vars

\* C5: two overlapping settle calls of one investment credit the payout at most once:
\* at most one invest_payout ledger entry exists for an investment.
C5_PayoutAtMostOnce ==
    \A i \in DOMAIN investments : Cardinality(PayoutEntries(investments[i].id)) <= 1

\* the step that settles investment i
Settles(i) ==
    /\ i \in DOMAIN investments
    /\ investments[i].status = "pending"
    /\ investments'[i].status # "pending"

\* C6: a settle call that follows a completed settle call of the same investment finds
\* it not pending, reports the status the first call reported, and writes nothing.
C6_SecondSettleIsNoOp ==
    [][\A p \in Procs :
        ( /\ call[p].pc = "idle"
          /\ ret.kind = "settlement"
          /\ ncalls' = ncalls + 1
          /\ \/ call'[p].investment_id = ret.investment_id
             \/ ret' # ret /\ ret'.investment_id = ret.investment_id )
        => /\ call'[p].pc = "idle"
           /\ ret'.kind = "status"
           /\ ret'.status = ret.status
           /\ UNCHANGED <<investments, user_points, ledger>>]_vars

\* a second settle call has reported won with one payout in the ledger
C6_Witness ==
    /\ ret.kind = "status"
    /\ ret.status = "won"
    /\ ret.investment_id = 1
    /\ Cardinality(PayoutEntries(1)) = 1
    /\ user_points[1] = INVEST_MIN_POINTS * INVEST_PAYOUT_MULTIPLIER

Eligible(c, post_id) ==
    /\ c \in DOMAIN posts
    /\ posts[c].parent_id = post_id
    /\ posts[c].moderation_status \notin {"flagged", "removed"}

\* c ranks before s by score: higher score, then more views, then created earlier,
\* then (all three equal) the earlier row of the sibling query
BeforeByScore(c, s) ==
    LET sc == Score(post_votes, c)  ss == Score(post_votes, s)
    IN \/ sc > ss
       \/ sc = ss /\ posts[c].views > posts[s].views
       \/ sc = ss /\ posts[c].views = posts[s].views
                  /\ posts[c].created_at < posts[s].created_at
       \/ sc = ss /\ posts[c].views = posts[s].views
                  /\ posts[c].created_at = posts[s].created_at /\ c < s

\* c ranks before s by views: more views, then higher score, then created earlier,
\* then the earlier row of the sibling query
BeforeByViews(c, s) ==
    LET sc == Score(post_votes, c)  ss == Score(post_votes, s)
    IN \/ posts[c].views > posts[s].views
       \/ posts[c].views = posts[s].views /\ sc > ss
       \/ posts[c].views = posts[s].views /\ sc = ss
                  /\ posts[c].created_at < posts[s].created_at
       \/ posts[c].views = posts[s].views /\ sc = ss
                  /\ posts[c].created_at = posts[s].created_at /\ c < s

WinCondition(inv) ==
    /\ Eligible(inv.comment_id, inv.post_id)
    /\ \A s \in DOMAIN posts :
        (s # inv.comment_id /\ Eligible(s, inv.post_id))
        => BeforeByScore(inv.comment_id, s) /\ BeforeByViews(inv.comment_id, s)

\* C7: a settle call that does not overlap any other change sets a pending investment
\* to won exactly when the staked comment is not flagged or removed and ranks before
\* every other eligible sibling both by score and by views, and to lost otherwise.
C7_WonIffTopOnBothAxes ==
    [][\A i \in DOMAIN investments :
        Settles(i) =>
            investments'[i].status =
                IF WinCondition(investments[i]) THEN "won" ELSE "lost"]_vars

\* one stake was won although its comment ties a sibling on score, and the other was
\* lost although its comment is eligible
C7_Witness ==
    /\ investments[1].status = "lost" /\ investments[2].status = "won"
    /\ Eligible(2, 1) /\ Eligible(3, 1) /\ Eligible(4, 1)
    /\ Score(post_votes, 2) = Score(post_votes, 3)
    /\ posts[2].views < posts[3].views

\* c has the strictly highest score and the strictly highest views of the eligible
\* siblings under post_id
UniqueTop(c, post_id) ==
    /\ Eligible(c, post_id)
    /\ \A s \in DOMAIN posts :
        (s # c /\ Eligible(s, post_id))
        => /\ Score(post_votes, c) > Score(post_votes, s)
           /\ posts[c].views > posts[s].views

\* C8: when one eligible comment has the unique highest score and the unique highest
\* views, settling a stake on it gives won with payout amount * multiplier, and
\* settling a stake on any other comment of the thread gives lost with payout 0.
C8_UniqueTopWinsOthersLose ==
    [][\A i \in DOMAIN investments :
        Settles(i) =>
            LET inv == investments[i]
            IN /\ UniqueTop(inv.comment_id, inv.post_id)
                    => /\ investments'[i].status = "won"
                       /\ investments'[i].payout_amount
                            = inv.amount * INVEST_PAYOUT_MULTIPLIER
                       /\ ret'.payout = inv.amount * INVEST_PAYOUT_MULTIPLIER
               /\ (\E c \in DOMAIN posts :
                        c # inv.comment_id /\ UniqueTop(c, inv.post_id))
                    => /\ investments'[i].status = "lost"
                       /\ investments'[i].payout_amount = 0
                       /\ ret'.payout = 0]_vars

\* both stakes are settled in a thread whose unique top is comment 3
C8_Witness ==
    /\ UniqueTop(3, 1) /\ Eligible(2, 1) /\ Eligible(4, 1)
    /\ investments[2].status = "won"
    /\ investments[2].payout_amount = INVEST_MIN_POINTS * INVEST_PAYOUT_MULTIPLIER
    /\ investments[1].status = "lost" /\ investments[1].payout_amount = 0

\* s ranks strictly before t in the order of the first / second sort
StrictlyBeforeByScore(s, t) ==
    \/ s.score > t.score
    \/ s.score = t.score /\ s.views > t.views
    \/ s.score = t.score /\ s.views = t.views /\ s.created_at < t.created_at

StrictlyBeforeByViews(s, t) ==
    \/ s.views > t.views
    \/ s.views = t.views /\ s.score > t.score
    \/ s.views = t.views /\ s.score = t.score /\ s.created_at < t.created_at

\* the thread of the example: A = comment 2 (score 5, views 10) and B = comment 3
\* (score 5, views 20) are the eligible siblings
ExampleThread ==
    /\ {c \in DOMAIN posts : Eligible(c, 1)} = {2, 3}
    /\ Score(post_votes, 2) = 5 /\ posts[2].views = 10
    /\ Score(post_votes, 3) = 5 /\ posts[3].views = 20

\* C9: the top by score has the highest score, among those the most views, among
\* those the earliest created_at; the top by views has the most views, among those
\* the highest score, among those the earliest created_at.  With A (score 5, views 10)
\* and B (score 5, views 20) both tops are B: a stake on A is lost, one on B is won.
C9_RankerTieBreaks ==
    LET rows == SiblingRows(posts, post_votes, 1)
        Row(id) == CHOOSE r \in {rows[k] : k \in DOMAIN rows} : r.id = id
    IN /\ rows # <<>> =>
            /\ TopScoreId(rows) \in {rows[k].id : k \in DOMAIN rows}
            /\ TopViewsId(rows) \in {rows[k].id : k \in DOMAIN rows}
            /\ \A k \in DOMAIN rows :
                /\ ~StrictlyBeforeByScore(rows[k], Row(TopScoreId(rows)))
                /\ ~StrictlyBeforeByViews(rows[k], Row(TopViewsId(rows)))
       /\ ExampleThread =>
            /\ TopScoreId(rows) = 3 /\ TopViewsId(rows) = 3
            /\ investments[1].status \in {"pending", "lost"}
            /\ investments[2].status \in {"pending", "won"}

\* in the thread of the example the stake on A is lost and the stake on B is won
C9_Witness ==
    /\ ExampleThread
    /\ investments[1].status = "lost"
    /\ investments[2].status = "won"

\* C10: settling a stake whose comment is flagged or removed at that time gives lost
\* with payout 0 and no credit, whatever the comment's score and views are, also when
\* the comment was moderated after the stake was placed.
C10_ModeratedAwayLoses ==
    [][\A i \in DOMAIN investments :
        (Settles(i) /\ posts[investments[i].comment_id].moderation_status
                            \in {"flagged", "removed"})
        => /\ investments'[i].status = "lost"
           /\ investments'[i].payout_amount = 0
           /\ UNCHANGED <<user_points, ledger>>]_vars

\* comment 2 leads on score and on views, its moderation ran after the stake and
\* flagged it, and the stake is lost
C10_Witness ==
    /\ investments[1].status = "lost" /\ investments[1].payout_amount = 0
    /\ posts[2].moderation_status \in {"flagged", "removed"}
    /\ nenv = 1 /\ posts[3].moderation_status = "pending"
    /\ Score(post_votes, 2) > Score(post_votes, 3) /\ posts[2].views > posts[3].views
    /\ Score(post_votes, 2) > Score(post_votes, 4) /\ posts[2].views > posts[4].views

\* the three tables invest and settle write
tables == <<investments, user_points, ledger>>

\* C11: an invest call that reaches the balance check with amount above the investor's
\* balance fails with the insufficient-balance error and leaves the balance, the
\* ledger and the investments as they were.
C11_InsufficientBalanceFails ==
    [][\A p \in Procs :
        ( /\ call[p].pc = "inv_balance"
          /\ call'[p] # call[p]
          /\ call[p].amount
                > get_user_points_balance(user_points, call[p].investor_user_id) )
        => /\ ret' = ErrorRet("Insufficient balance")
           /\ call'[p] = Idle
           /\ UNCHANGED tables]_vars

\* user 1 staked the whole balance and a further invest call was refused
C11_Witness ==
    /\ ret = ErrorRet("Insufficient balance")
    /\ Len(investments) = 1
    /\ user_points[1] = 0
    /\ \A p \in Procs : call[p].pc = "idle"

\* C12: invest by the author of the comment, or on a root post, fails and creates no
\* investment and changes no balance; no investment row has the author of its comment
\* as investor or refers to a root post.
C12_NoOwnCommentNoRootPost ==
    /\ [](\A i \in DOMAIN investments :
            /\ posts[investments[i].comment_id].user_id # investments[i].investor_user_id
            /\ posts[investments[i].comment_id].parent_id # NULL)
    /\ [][\A p \in Procs, u \in Users, c \in PostArgs, a \in Amounts :
            ( /\ InvestFetch(p, u, c, a)
              /\ c \in DOMAIN posts
              /\ (posts[c].user_id = u \/ posts[c].parent_id = NULL) )
            => /\ ret'.kind = "error"
               /\ call'[p] = Idle
               /\ UNCHANGED tables]_vars

\* the author's invest call was refused while another user's stake is in place
C12_Witness ==
    /\ ret = ErrorRet("Cannot invest in own comment")
    /\ Len(investments) = 1

\* C13: invest with an amount below INVEST_MIN_POINTS fails with the below-minimum
\* error and leaves the balance untouched; every investment row has
\* amount >= INVEST_MIN_POINTS.
C13_BelowMinimumFails ==
    /\ [](\A i \in DOMAIN investments : investments[i].amount >= INVEST_MIN_POINTS)
    /\ [][\A p \in Procs, u \in Users, c \in PostArgs, a \in Amounts :
            (InvestFetch(p, u, c, a) /\ a < INVEST_MIN_POINTS)
            => /\ ret' = ErrorRet("Amount below minimum")
               /\ call'[p] = Idle
               /\ UNCHANGED tables]_vars

\* an invest call of 5 points was refused and the balance is what the stake left
C13_Witness ==
    /\ ret = ErrorRet("Amount below minimum")
    /\ Len(investments) = 1
    /\ user_points[1] = InitBalance(1) - investments[1].amount

\* C14: at the moment an investment row is inserted its comment is neither flagged
\* nor removed, also when a moderation update runs between the steps of the invest call.
C14_NoStakeOnModeratedComment ==
    [][\A i \in DOMAIN investments' :
        i \notin DOMAIN investments
        => posts'[investments'[i].comment_id].moderation_status \notin IneligibleStatuses]_vars

\* the balances of the users other than user_id are what they were
OtherBalancesUnchanged(user_id) ==
    \A u \in Users \ {user_id} :
        /\ (u \in DOMAIN user_points') = (u \in DOMAIN user_points)
        /\ get_user_points_balance(user_points', u) = get_user_points_balance(user_points, u)

\* C15: a successful invest appends one pending investment row with the comment's
\* parent as post_id and the given amount, lowers the investor's balance by exactly
\* the amount, appends one invest_stake ledger entry of -amount that references the
\* comment, and changes no other investment, balance or ledger entry.
C15_InvestFrame ==
    [][\A p \in Procs :
        (call[p].pc = "inv_write" /\ call'[p] = Idle /\ ret'.kind = "investment")
        => LET c == call[p]
           IN /\ investments' = Append(investments,
                    [id |-> Len(investments) + 1,
                     investor_user_id |-> c.investor_user_id,
                     comment_id |-> c.comment_id,
                     post_id |-> posts[c.comment_id].parent_id,
                     amount |-> c.amount,
                     status |-> "pending",
                     settle_at |-> now + INVEST_WINDOW_DAYS,
                     settled_at |-> NULL,
                     payout_amount |-> NULL])
              /\ c.investor_user_id \in DOMAIN user_points'
              /\ user_points'[c.investor_user_id]
                    = get_user_points_balance(user_points, c.investor_user_id) - c.amount
              /\ OtherBalancesUnchanged(c.investor_user_id)
              /\ Len(ledger') = Len(ledger) + 1
              /\ SubSeq(ledger', 1, Len(ledger)) = ledger
              /\ ledger'[Len(ledger')].user_id = c.investor_user_id
              /\ ledger'[Len(ledger')].delta = -c.amount
              /\ ledger'[Len(ledger')].reason = "invest_stake"
              /\ ledger'[Len(ledger')].ref_comment_id = c.comment_id
              /\ ret'.status = "pending"
              /\ UNCHANGED <<posts, post_votes>>]_vars

\* a second stake was written after the clock moved, next to an earlier one
C15_Witness ==
    /\ ret.kind = "investment"
    /\ Len(investments) = 2
    /\ investments[2].settle_at = MaxTime + INVEST_WINDOW_DAYS
    /\ user_points[1] = 0

\* C16: the writes of one invest call take effect together or not at all: in every
\* state each investment row has its invest_stake ledger entry and there are as many
\* of the one as of the other; a step that adds a row debits the investor in the same
\* step and no other step debits a balance; a write that fails changes nothing.
C16_InvestWritesAtomic ==
    /\ [](/\ Cardinality(LedgerEntries("invest_stake")) = Len(investments)
          /\ \A i \in DOMAIN investments :
                \E k \in LedgerEntries("invest_stake") :
                    /\ ledger[k].user_id = investments[i].investor_user_id
                    /\ ledger[k].ref_comment_id = investments[i].comment_id
                    /\ ledger[k].delta = -investments[i].amount)
    /\ [][/\ \A u \in Users :
                get_user_points_balance(user_points', u)
                    < get_user_points_balance(user_points, u)
                => /\ Len(investments') = Len(investments) + 1
                   /\ investments'[Len(investments')].investor_user_id = u
          /\ Len(investments') = Len(investments) + 1
                => LET inv == investments'[Len(investments')]
                   IN get_user_points_balance(user_points', inv.investor_user_id)
                        = get_user_points_balance(user_points, inv.investor_user_id)
                            - inv.amount
          /\ \A p \in Procs :
                (call[p].pc = "inv_write" /\ call'[p] = Idle /\ ret'.kind = "error")
                => UNCHANGED tables]_vars

\* a write failed after an earlier stake went through while another call is in flight
C16_Witness ==
    /\ ret = ErrorRet("Database error")
    /\ Len(investments) = 1
    /\ \E p \in Procs : call[p].pc \in {"inv_balance", "inv_write", "set_comment", "set_rows", "set_write"}

\* C17: the write of a settle call changes the investor's balance by exactly the
\* payout the call reports: on a win the balance grows by amount times the multiplier
\* and one invest_payout ledger entry of that delta referencing the comment and the
\* investment is appended; on a loss balance and ledger stay and the payout is 0; the
\* stake is not returned besides, and no other user's balance changes.
C17_SettleFrame ==
    [][\A p \in Procs :
        (call[p].pc = "set_write" /\ call'[p] = Idle)
        => LET c == call[p]
               before == get_user_points_balance(user_points, c.investor_user_id)
               after == get_user_points_balance(user_points', c.investor_user_id)
           IN /\ ret'.kind = "settlement"
              /\ after = before + ret'.payout
              /\ investments'[c.investment_id].payout_amount = ret'.payout
              /\ OtherBalancesUnchanged(c.investor_user_id)
              /\ IF ret'.won
                 THEN /\ ret'.status = "won"
                      /\ ret'.payout = c.amount * INVEST_PAYOUT_MULTIPLIER
                      /\ ledger' = Append(ledger,
                            [id |-> Len(ledger) + 1,
                             user_id |-> c.investor_user_id,
                             delta |-> c.amount * INVEST_PAYOUT_MULTIPLIER,
                             reason |-> "invest_payout",
                             ref_comment_id |-> c.comment_id,
                             investment_id |-> c.investment_id])
                 ELSE /\ ret'.status = "lost"
                      /\ ret'.payout = 0
                      /\ UNCHANGED <<user_points, ledger>>]_vars

\* a stake of 10 was won: the balance is the grant less the stake plus twice the stake
C17_Witness ==
    /\ ret.kind = "settlement" /\ ret.won
    /\ Len(investments) = 1
    /\ investments[1].status = "won"
    /\ user_points[1] = InitBalance(1) - investments[1].amount
                            + investments[1].amount * INVEST_PAYOUT_MULTIPLIER
    /\ Cardinality(LedgerEntries("invest_payout")) = 1

\* C18: when no comment under the parent is eligible, no comment is top on either
\* axis, and settling a pending investment on that parent gives lost with payout 0
\* and returns a settlement, not an error.
C18_EmptySiblingSetLoses ==
    [][\A i \in DOMAIN investments :
        (Settles(i) /\ \A c \in DOMAIN posts : ~Eligible(c, investments[i].post_id))
        => /\ SiblingRows(posts, post_votes, investments[i].post_id) = <<>>
           /\ \A c \in DOMAIN posts : ~IsTopScore(<<>>, c) /\ ~IsTopViews(<<>>, c)
           /\ investments'[i].status = "lost"
           /\ investments'[i].payout_amount = 0
           /\ ret'.kind = "settlement"
           /\ ret'.payout = 0
           /\ UNCHANGED <<user_points, ledger>>]_vars

\* every reply under post 1 is flagged or removed and a stake there was settled as lost
C18_Witness ==
    /\ \A c \in DOMAIN posts : ~Eligible(c, 1)
    /\ nenv = 0
    /\ ret.kind = "settlement"
    /\ investments[ret.investment_id].status = "lost"
    /\ investments[ret.investment_id].payout_amount = 0

\* C19: a settle call with an id no investment has fails with the not-found error and
\* changes no investment, balance or ledger entry.
C19_SettleNotFound ==
    [][\A p \in Procs, id \in 1..(Len(investments) + 1) :
        (SettleFetch(p, id) /\ \A i \in DOMAIN investments : investments[i].id # id)
        => /\ ret' = ErrorRet("Investment not found")
           /\ call'[p] = Idle
           /\ UNCHANGED tables]_vars

\* the id after the only investment was asked for and refused
C19_Witness ==
    /\ ret = ErrorRet("Investment not found")
    /\ Len(investments) = 1
    /\ user_points[1] = InitBalance(1) - investments[1].amount

\* C20: the won flag a settle call computes is the win condition of the state in which
\* its sibling query runs, whatever votes, view increments, moderation updates and
\* other settle steps ran before or after that query, and the status and payout the
\* call then writes are those of that flag.
C20_OutcomeFromOneState ==
    [][\A p \in Procs :
        /\ (call[p].pc = "set_rows" /\ call'[p].pc = "set_write")
            => /\ call'[p].won = WinCondition(call[p])
               /\ call'[p].payout = (IF WinCondition(call[p])
                                     THEN call[p].amount * INVEST_PAYOUT_MULTIPLIER ELSE 0)
        /\ (call[p].pc = "set_write" /\ call'[p] = Idle)
            => /\ investments'[call[p].investment_id].status
                    = (IF call[p].won THEN "won" ELSE "lost")
               /\ investments'[call[p].investment_id].payout_amount = call[p].payout
               /\ ret'.won = call[p].won]_vars

\* comment 2 was read as not moderated, was flagged before the sibling query, and the
\* call is about to write lost
C20_Witness ==
    \E p \in Procs :
        /\ call[p].pc = "set_write"
        /\ ~call[p].moderated_away
        /\ ~call[p].won
        /\ posts[call[p].comment_id].moderation_status \in {"flagged", "removed"}

\* C21: every investment's status is pending, won or lost in every state, no step sets
\* a status to cancelled, and a balance only ever grows by the payout of a settle call
\* that won: no step gives a stake back.
C21_NoCancellation ==
    /\ [](\A i \in DOMAIN investments :
            investments[i].status \in {"pending", "won", "lost"})
    /\ [][/\ \A i \in DOMAIN investments' : investments'[i].status # "cancelled"
          /\ \A u \in Users :
                get_user_points_balance(user_points', u)
                    > get_user_points_balance(user_points, u)
                => \E p \in Procs :
                    /\ call[p].pc = "set_write" /\ call'[p] = Idle
                    /\ call[p].won /\ call[p].investor_user_id = u
                    /\ get_user_points_balance(user_points', u)
                        = get_user_points_balance(user_points, u)
                            + call[p].amount * INVEST_PAYOUT_MULTIPLIER]_vars

\* a stake was settled as lost and the investor's balance is still short of it
C21_Witness ==
    /\ Len(investments) = 1
    /\ investments[1].status = "lost"
    /\ user_points[1] = InitBalance(1) - investments[1].amount
    /\ ret.kind = "settlement"

\* C22: creating a comment attempts the streak award after the row is inserted; when
\* the award raises, the row stays, nothing of the award is written and create_post
\* returns the new post id; creating a root post returns at once, without the award.
C22_AwardIsBestEffort ==
    [][\A p \in Procs :
        /\ CreateAward(p, "raises")
            => /\ call[p].comment_id \in DOMAIN posts'
               /\ posts' = posts
               /\ posts'[call[p].comment_id].parent_id # NULL
               /\ ret' = PostRet(call[p].comment_id)
               /\ UNCHANGED tables
        /\ \A u \in Users :
            /\ CreateInsert(p, u, NULL)
                => /\ call'[p] = Idle
                   /\ ret' = PostRet(Cardinality(DOMAIN posts) + 1)
                   /\ UNCHANGED tables
            /\ \A parent \in ParentArgs \ {NULL} :
                CreateInsert(p, u, parent)
                    => /\ call'[p].pc = "cp_award"
                       /\ call'[p].comment_id = Cardinality(DOMAIN posts) + 1
                       /\ posts'[call'[p].comment_id].parent_id = parent]_vars

\* comment 4 was created by user 2, its award raised: the row is there, the id was
\* returned and user 2 has no points
C22_Witness ==
    /\ ret = PostRet(4)
    /\ 4 \in DOMAIN posts
    /\ posts[4].parent_id = 1 /\ posts[4].user_id = 2
    /\ 2 \notin DOMAIN user_points
    /\ \A p \in Procs : call[p].pc = "idle"

\* C23: a post or comment is inserted with moderation_status pending; once its
\* moderation task has run its status is approved, flagged or removed; a moderation
\* call that fails leaves it approved.
C23_ModerationLeavesPending ==
    /\ [](\A c \in DOMAIN mod_task :
            mod_task[c] = "done"
            => posts[c].moderation_status \in {"approved", "flagged", "removed"})
    /\ [][/\ \A c \in DOMAIN posts' :
                c \notin DOMAIN posts => posts'[c].moderation_status = "pending"
          /\ \A c \in DOMAIN mod_task :
                (mod_task[c] = "queued"
                    /\ (ModerateComment(c, "fail") \/ ModeratePost(c, "fail")))
                => posts'[c].moderation_status = "approved"]_vars

\* a root post and a comment were created, the root post's task has run and flagged it,
\* the comment still waits
C23_Witness ==
    /\ 5 \in DOMAIN posts
    /\ \E c \in {4, 5}, d \in {4, 5} :
        /\ posts[c].parent_id = NULL /\ posts[d].parent_id = 1
        /\ c \in DOMAIN mod_task /\ mod_task[c] = "done"
        /\ posts[c].moderation_status = "flagged"
        /\ posts[d].moderation_status = "pending"

\* a flagged or removed comment under the same parent that has a higher score or more
\* views than c
ModeratedRival(c, post_id) ==
    \E f \in DOMAIN posts :
        /\ posts[f].parent_id = post_id
        /\ posts[f].moderation_status \in {"flagged", "removed"}
        /\ (Score(post_votes, f) > Score(post_votes, c) \/ posts[f].views > posts[c].views)

\* C24: flagged and removed siblings are left out of the ranking and pending, approved
\* and null ones take part: a stake on a comment that ranks first among the eligible
\* siblings is won although a flagged or removed sibling has a higher score or more
\* views, and is lost when a pending or approved sibling ranks before it on an axis.
C24_ModeratedSiblingsExcluded ==
    /\ [](\A c \in Comments :
            LET t == [posts EXCEPT ![c].moderation_status = "NULL"]
            IN \E k \in DOMAIN SiblingRows(t, post_votes, posts[c].parent_id) :
                    SiblingRows(t, post_votes, posts[c].parent_id)[k].id = c)
    /\ [][\A i \in DOMAIN investments :
            LET c == investments[i].comment_id
                post_id == investments[i].post_id
            IN /\ (Settles(i) /\ WinCondition(investments[i]) /\ ModeratedRival(c, post_id))
                    => investments'[i].status = "won"
               /\ (Settles(i) /\ \E s \in DOMAIN posts :
                        /\ s # c /\ posts[s].parent_id = post_id
                        /\ posts[s].moderation_status \in {"pending", "approved"}
                        /\ ~(BeforeByScore(c, s) /\ BeforeByViews(c, s)))
                    => investments'[i].status = "lost"]_vars

\* the stake on comment 2 is won although the removed comment 4 has the higher score
\* and more views; comment 3 is pending and ranks behind comment 2
C24_Witness ==
    /\ investments[1].status = "won"
    /\ nenv = 0
    /\ posts[4].moderation_status = "removed"
    /\ Score(post_votes, 4) > Score(post_votes, 2) /\ posts[4].views > posts[2].views
    /\ posts[3].moderation_status = "pending"

\* C25: when the staked comment is eligible and no other comment under its parent is,
\* settling a pending investment on it gives won with payout amount times the
\* multiplier, whatever its score and views.
C25_OnlyEligibleCommentWins ==
    [][\A i \in DOMAIN investments :
        (Settles(i)
            /\ \A c \in DOMAIN posts :
                Eligible(c, investments[i].post_id) <=> c = investments[i].comment_id)
        => /\ investments'[i].status = "won"
           /\ investments'[i].payout_amount
                = investments[i].amount * INVEST_PAYOUT_MULTIPLIER
           /\ ret'.won /\ ret'.payout = investments[i].amount * INVEST_PAYOUT_MULTIPLIER]_vars

\* comment 2 has score -1 and no views, comments 3 and 4 are moderated away, and the
\* stake on comment 2 is won
C25_Witness ==
    /\ investments[1].status = "won"
    /\ investments[1].payout_amount = investments[1].amount * INVEST_PAYOUT_MULTIPLIER
    /\ nenv = 0
    /\ Score(post_votes, 2) < 0 /\ posts[2].views = 0
    /\ \A c \in {3, 4} : posts[c].moderation_status \in {"flagged", "removed"}

\* the errors of invest in the order the claim gives them
InvestErrors ==
    << "Amount below minimum", "Comment not found", "Not a comment",
       "Cannot invest in own comment", "Comment not eligible", "Insufficient balance" >>

\* the k-th precondition of invest(u, c, a) is unmet in the current state
Unmet(k, u, c, a) ==
    CASE k = 1 -> a < INVEST_MIN_POINTS
      [] k = 2 -> c \notin DOMAIN posts
      [] k = 3 -> c \in DOMAIN posts /\ posts[c].parent_id = NULL
      [] k = 4 -> c \in DOMAIN posts /\ posts[c].user_id = u
      [] k = 5 -> c \in DOMAIN posts /\ posts[c].moderation_status \in {"flagged", "removed"}
      [] OTHER -> get_user_points_balance(user_points, u) < a

\* C26: an invest call with several preconditions unmet reports the first unmet one
\* in the order below minimum, not found, not a comment, own comment, not eligible,
\* insufficient balance; the six errors are distinct and none of them writes anything.
C26_FirstUnmetPreconditionReported ==
    /\ [](Cardinality({InvestErrors[k] : k \in 1..6}) = 6)
    /\ [][\A p \in Procs :
            /\ \A u \in Users, c \in PostArgs, a \in Amounts :
                InvestFetch(p, u, c, a)
                => IF \E k \in 1..5 : Unmet(k, u, c, a)
                   THEN LET first == CHOOSE k \in 1..5 :
                                /\ Unmet(k, u, c, a)
                                /\ \A j \in 1..(k - 1) : ~Unmet(j, u, c, a)
                        IN /\ ret' = ErrorRet(InvestErrors[first])
                           /\ call'[p] = Idle
                           /\ UNCHANGED tables
                   ELSE /\ call'[p].pc = "inv_balance"
                        /\ UNCHANGED <<ret, investments, user_points, ledger>>
            /\ (call[p].pc = "inv_balance" /\ call'[p] = Idle)
                => /\ Unmet(6, call[p].investor_user_id, call[p].comment_id, call[p].amount)
                   /\ ret' = ErrorRet(InvestErrors[6])
                   /\ UNCHANGED tables]_vars

\* the first call was made on the root post: whoever made it, a second precondition
\* (own post for user 1, balance for user 2) was unmet as well
C26_Witness ==
    /\ ret = ErrorRet("Not a comment")
    /\ ncalls = 1
    /\ investments = <<>>

\* C27: in every state an investment is won exactly when one invest_payout ledger entry
\* carries its id, and then that entry's delta is the payout_amount, which is amount
\* times the multiplier; a lost investment has payout_amount 0 and no such entry; a
\* pending one has no payout_amount and no such entry.
C27_PayoutEntryMatchesStatus ==
    \A i \in DOMAIN investments :
        LET inv == investments[i]
            entries == PayoutEntries(inv.id)
        IN /\ (inv.status = "won") <=> (Cardinality(entries) = 1)
           /\ inv.status = "won"
                => /\ inv.payout_amount = inv.amount * INVEST_PAYOUT_MULTIPLIER
                   /\ \A k \in entries : ledger[k].delta = inv.payout_amount
           /\ inv.status = "lost" => (inv.payout_amount = 0 /\ entries = {})
           /\ inv.status = "pending" => (inv.payout_amount = NULL /\ entries = {})

\* C28: settle does not look at settle_at: a settle call that finds its investment
\* pending goes on to the ranking also when settle_at lies in the future, and its
\* write sets the investment to won or lost with the current time as settled_at.
C28_SettleIgnoresSettleAt ==
    [][\A p \in Procs :
        /\ \A i \in DOMAIN investments :
            (SettleFetch(p, investments[i].id)
                /\ investments[i].status = "pending" /\ now < investments[i].settle_at)
            => /\ call'[p].pc = "set_comment"
               /\ call'[p].investment_id = investments[i].id
               /\ UNCHANGED ret
        /\ (call[p].pc = "set_write" /\ call'[p] = Idle)
            => /\ investments'[call[p].investment_id].status \in {"won", "lost"}
               /\ investments'[call[p].investment_id].settled_at = now
               /\ ret'.kind = "settlement"]_vars

\* an investment was resolved before its settle_at
C28_Witness ==
    /\ Len(investments) = 1
    /\ investments[1].status \in {"won", "lost"}
    /\ investments[1].settled_at < investments[1].settle_at
    /\ ret.kind = "settlement"

\* C29: in any one state of votes, views and moderation statuses the win computation
\* of settle accepts at most one comment of a sibling set, and two investments on
\* different comments under one parent that are settled with no vote, view or
\* moderation change in between are not both won.
C29_AtMostOneWinner ==
    /\ \A c \in Comments, d \in Comments :
        (c # d /\ posts[c].parent_id = posts[d].parent_id)
        => LET rows == SiblingRows(posts, post_votes, posts[c].parent_id)
           IN ~(/\ Won(IsModeratedAway(posts, c), rows, c)
                /\ Won(IsModeratedAway(posts, d), rows, d))
    /\ \A i \in DOMAIN investments, j \in DOMAIN investments :
        (/\ nenv = 0
         /\ investments[i].comment_id # investments[j].comment_id
         /\ investments[i].post_id = investments[j].post_id)
        => ~(investments[i].status = "won" /\ investments[j].status = "won")

\* comments 2 and 3 are level on score, views and creation time, both stakes were
\* settled with nothing changed in between: one is won, the other lost
C29_Witness ==
    /\ nenv = 0
    /\ investments[1].status = "won" /\ investments[2].status = "lost"
    /\ Score(post_votes, 2) = Score(post_votes, 3)
    /\ posts[2].views = posts[3].views
    /\ posts[3].moderation_status \notin {"flagged", "removed"}

\* the payouts of a user's investments, unsettled ones counting 0
RECURSIVE PayoutSum(_, _)
PayoutSum(rows, user_id) ==
    IF rows = <<>> THEN 0
    ELSE (IF Head(rows).investor_user_id = user_id /\ Head(rows).payout_amount # NULL
          THEN Head(rows).payout_amount ELSE 0)
         + PayoutSum(Tail(rows), user_id)

\* C30: no step of a settle call changes votes, views or moderation statuses, and when
\* all investments have been settled with no such change in between, in whichever
\* order, each status and payout is the win condition's of that unchanged state and
\* the balance is the starting balance plus the payouts.
C30_SettleOrderIndependent ==
    /\ [][(call' # call \/ ret' # ret) => UNCHANGED <<posts, post_votes, mod_task>>]_vars
    /\ []((nenv = 0 /\ \A i \in DOMAIN investments : investments[i].status # "pending")
            => /\ \A i \in DOMAIN investments :
                    /\ investments[i].status
                        = (IF WinCondition(investments[i]) THEN "won" ELSE "lost")
                    /\ investments[i].payout_amount
                        = (IF WinCondition(investments[i])
                           THEN investments[i].amount * INVEST_PAYOUT_MULTIPLIER ELSE 0)
               /\ \A u \in Users :
                    get_user_points_balance(user_points, u)
                        = PayoutSum(investments, u))

\* investment 2 was settled first and investment 1 second; investment 1 is won
C30_Witness ==
    /\ nenv = 0 /\ ncalls = 2
    /\ ret.kind = "settlement" /\ ret.investment_id = 1
    /\ investments[1].status = "won" /\ investments[2].status = "lost"
    /\ user_points[1] = investments[1].payout_amount

====
